---- MODULE Spec2Model ----
(***************************************************************************)
(* Model of reddit/main.go: one run of the HyderabadBuySell monitor.       *)
(* main authenticates against Reddit, fetches the newest posts of the      *)
(* subreddit, keeps today's posts whose title holds a keyword and mails    *)
(* them over SMTP.  Strings whose characters matter (titles, keywords) are *)
(* sequences of one-character strings; timestamps are integers.            *)
(***************************************************************************)
EXTENDS Integers, Sequences, FiniteSets, TLC

VARIABLES
    pc,         \* main's position
    env,        \* the process environment after godotenv.Load
    cfg,        \* *Config returned by LoadConfig
    token,      \* token returned by GetRedditAccessToken
    err,        \* err of the last call in main ("nil" for nil)
    listing,    \* posts.Data.Children decoded from the listing response
    listResp,   \* the listing response: its StatusCode and how its body decodes
    authResp,   \* the token response: its StatusCode and Status
    now,        \* time.Now().UTC() read by fetchAndFilterTodayPosts, in seconds
    posts,      \* matching posts returned by fetchAndFilterTodayPosts
    emailBody,  \* string built by ComposeEmailBody
    sent,       \* message bytes handed to the SMTP DATA writer
    open,       \* connections / response bodies currently open
    opened,     \* connections / response bodies opened so far (history)
    stages,     \* stages invoked so far, in order (history)
    completed,  \* stages that returned without error, in order (history)
    net,        \* network operations attempted so far, in order (history)
    exitStatus  \* "running", "exit0" (main returned), "exit1" (log.Fatal)

vars == <<pc, env, cfg, token, err, listing, listResp, authResp, now, posts,
          emailBody, sent, open, opened, stages, completed, net, exitStatus>>

----------------------------------------------------------------------------
(* Bounds of the model. *)

\* longest listing the mock Reddit API returns
MaxPosts == 2

\* epoch day on which the run happens (days since 1970-01-01; half-second
\* timestamps of it stay below 2^31)
SampleDay == 10000

----------------------------------------------------------------------------
(* Config and the environment. *)

EnvVars == {"REDDIT_CLIENT_ID", "REDDIT_CLIENT_SECRET", "REDDIT_USERNAME",
            "REDDIT_PASSWORD", "SMTP_HOST", "SMTP_PORT", "EMAIL_FROM",
            "EMAIL_TO", "EMAIL_USER", "EMAIL_PASS"}

\* os.Getenv yields "" for an unset variable and for one set to ""
EnvValues == {"", "v"}

LoadConfig(e) ==
    [RedditClientID     |-> e["REDDIT_CLIENT_ID"],
     RedditClientSecret |-> e["REDDIT_CLIENT_SECRET"],
     RedditUsername     |-> e["REDDIT_USERNAME"],
     RedditPassword     |-> e["REDDIT_PASSWORD"],
     SMTPHost           |-> e["SMTP_HOST"],
     SMTPPort           |-> e["SMTP_PORT"],
     EmailFrom          |-> e["EMAIL_FROM"],
     EmailTo            |-> e["EMAIL_TO"],
     EmailUser          |-> e["EMAIL_USER"],
     EmailPass          |-> e["EMAIL_PASS"],
     Subreddit          |-> "HyderabadBuySell",
     Keywords           |-> << <<"t","a","b","l","e">>, <<"c","h","a","i","r">> >>]

\* main's cfg before LoadConfig has run
NoConfig ==
    [RedditClientID |-> "", RedditClientSecret |-> "", RedditUsername |-> "",
     RedditPassword |-> "", SMTPHost |-> "", SMTPPort |-> "", EmailFrom |-> "",
     EmailTo |-> "", EmailUser |-> "", EmailPass |-> "", Subreddit |-> "",
     Keywords |-> << >>]

MissingReddit(c) ==
    \/ c.RedditClientID = ""
    \/ c.RedditClientSecret = ""
    \/ c.RedditUsername = ""
    \/ c.RedditPassword = ""

\* variant: the validation forgets EmailPass
MissingSmtp_NoPass(c) ==
    \/ c.SMTPHost = ""
    \/ c.SMTPPort = ""
    \/ c.EmailFrom = ""
    \/ c.EmailTo = ""
    \/ c.EmailUser = ""

MissingSmtp(c) ==
    \/ c.SMTPHost = ""
    \/ c.SMTPPort = ""
    \/ c.EmailFrom = ""
    \/ c.EmailTo = ""
    \/ c.EmailUser = ""
    \/ c.EmailPass = ""

----------------------------------------------------------------------------
(* Strings. *)

UpperChars == <<"A","B","C","D","E","F","G","H","I","J","K","L","M",
                "N","O","P","Q","R","S","T","U","V","W","X","Y","Z">>

LowerChars == <<"a","b","c","d","e","f","g","h","i","j","k","l","m",
                "n","o","p","q","r","s","t","u","v","w","x","y","z">>

ToLowerChar(c) ==
    IF \E i \in 1..Len(UpperChars) : UpperChars[i] = c
    THEN LowerChars[CHOOSE i \in 1..Len(UpperChars) : UpperChars[i] = c]
    ELSE c

\* strings.ToLower
ToLower(s) == [i \in 1..Len(s) |-> ToLowerChar(s[i])]

\* strings.Contains
Contains(s, sub) ==
    \E i \in 1..(Len(s) - Len(sub) + 1) : SubSeq(s, i, i + Len(sub) - 1) = sub

----------------------------------------------------------------------------
(* Time.  CreatedUTC is a float64 of seconds; the model keeps it in        *)
(* half seconds, so that a fractional timestamp exists.                    *)

\* int64(child.Data.CreatedUTC): truncation of a non-negative float
ToInt64(halfSeconds) == halfSeconds \div 2

\* time.Date(y, m, d, 0, 0, 0, 0, time.UTC).Unix() for the UTC day of t
StartOfDay(t) == t - (t % 86400)

\* time.Date(y, m, d, 23, 59, 59, 0, time.UTC).Unix() for the UTC day of t
EndOfDay(t) == StartOfDay(t) + 23 * 3600 + 59 * 60 + 59

----------------------------------------------------------------------------
(* The filter of fetchAndFilterTodayPosts. *)

\* the struct appended to matching
Match(child, postTime) ==
    [Title     |-> child.Title,
     Permalink |-> "https://reddit.com" \o child.Permalink,
     Created   |-> postTime]

\* variant: the keyword loop without its break
RECURSIVE KeywordLoop_NoBreak(_, _, _, _, _)
KeywordLoop_NoBreak(child, postTime, kws, k, matching) ==
    IF k > Len(kws) THEN matching
    ELSE IF Contains(ToLower(child.Title), kws[k])
         THEN KeywordLoop_NoBreak(child, postTime, kws, k + 1,
                                  Append(matching, Match(child, postTime)))
         ELSE KeywordLoop_NoBreak(child, postTime, kws, k + 1, matching)

\* for _, kw := range cfg.Keywords { if Contains { append; break } }
RECURSIVE KeywordLoop(_, _, _, _, _)
KeywordLoop(child, postTime, kws, k, matching) ==
    IF k > Len(kws) THEN matching
    ELSE IF Contains(ToLower(child.Title), kws[k])
         THEN Append(matching, Match(child, postTime))
         ELSE KeywordLoop(child, postTime, kws, k + 1, matching)

\* variant: the window's end compared with < instead of <=
FilterChild_ExclusiveEnd(child, startOfDay, endOfDay, kws, matching) ==
    LET postTime == ToInt64(child.CreatedUTC)
    IN  IF postTime >= startOfDay /\ postTime < endOfDay
        THEN KeywordLoop(child, postTime, kws, 1, matching)
        ELSE matching

\* the body of the loop over posts.Data.Children, for one child
FilterChild(child, startOfDay, endOfDay, kws, matching) ==
    LET postTime == ToInt64(child.CreatedUTC)
    IN  IF postTime >= startOfDay /\ postTime <= endOfDay
        THEN KeywordLoop(child, postTime, kws, 1, matching)
        ELSE matching

\* for _, child := range posts.Data.Children
RECURSIVE FilterLoop(_, _, _, _, _, _)
FilterLoop(children, i, startOfDay, endOfDay, kws, matching) ==
    IF i > Len(children) THEN matching
    ELSE FilterLoop(children, i + 1, startOfDay, endOfDay, kws,
                    FilterChild(children[i], startOfDay, endOfDay, kws, matching))

\* ComposeEmailBody: the heading, then one block per post
ComposeEmailBody(ps) ==
    <<"Posts for today with keywords (table, chair) from r/HyderabadBuySell:">>
    \o [i \in 1..Len(ps) |-> ps[i]]

\* the message SendEmail builds: the header map (Go ranges over it in an
\* unspecified order, so the model keeps the set of lines), then the body
Message(c, subject, body) ==
    [header |-> {<<"From", c.EmailFrom>>, <<"To", c.EmailTo>>,
                 <<"Subject", subject>>, <<"MIME-Version", "1.0">>,
                 <<"Content-Type", "text/plain; charset=utf-8">>},
     body   |-> body]

----------------------------------------------------------------------------
(* What the outside world may answer. *)

SampleTitles ==
    { <<"N","e","w"," ","T","A","B","L","E">>,
      <<"t","a","b","l","e"," ","c","h","a","i","r">>,
      <<"c","o","u","c","h">>,
      <<"C","h","a","i","r","s">> }

\* created_utc values, in half seconds: 23:59:59.5 of the day before
\* SampleDay, 23:59:59.5 of SampleDay, 00:00:00 of the next day, and
\* 00:00:00 of the day after that
SampleCreated ==
    { SampleDay * 86400 * 2 - 1,
      (SampleDay + 1) * 86400 * 2 - 1,
      (SampleDay + 1) * 86400 * 2,
      (SampleDay + 2) * 86400 * 2 }

\* time.Now(): the last second of SampleDay and the first of the next day
SampleNow == { SampleDay * 86400 + 86399, (SampleDay + 1) * 86400 }

SampleChildren ==
    [Title : SampleTitles, CreatedUTC : SampleCreated,
     Permalink : {"/r/HyderabadBuySell/comments/x1/title/"}]

Listings == UNION { [1..n -> SampleChildren] : n \in 0..MaxPosts }

\* resp.StatusCode and resp.Status of the token endpoint
TokenResponses ==
    { [code |-> 200, status |-> "200 OK"],
      [code |-> 401, status |-> "401 Unauthorized"],
      [code |-> 429, status |-> "429 Too Many Requests"] }

NoResponse == [code |-> 0, status |-> ""]

\* tokenResp.AccessToken after decoding: absent from the JSON, or present
SampleTokens == {"", "tok"}

\* resp.StatusCode of the listing endpoint
ListingCodes == {200, 401}

NoListing == [code |-> 0, body |-> "none"]

----------------------------------------------------------------------------
(* main and the functions it calls. *)

Init ==
    /\ pc = "LoadEnv"
    /\ env = [v \in EnvVars |-> ""]
    /\ cfg = NoConfig
    /\ token = ""
    /\ err = "nil"
    /\ listing = << >>
    /\ listResp = NoListing
    /\ authResp = NoResponse
    /\ now = 0
    /\ posts = << >>
    /\ emailBody = << >>
    /\ sent = << >>
    /\ open = {}
    /\ opened = {}
    /\ stages = << >>
    /\ completed = << >>
    /\ net = << >>
    /\ exitStatus = "running"

\* variant: the error is logged and main returns
Fatal_LogOnly ==
    /\ pc' = "exit"
    /\ exitStatus' = "exit0"

\* log.Fatal / log.Fatalf: the process exits with status 1
Fatal ==
    /\ pc' = "exit"
    /\ exitStatus' = "exit1"

\* main returns: the process exits with status 0
Return ==
    /\ pc' = "exit"
    /\ exitStatus' = "exit0"

\* godotenv.Load() and its error check; the file's variables join the
\* environment
MainLoadEnv ==
    /\ pc = "LoadEnv"
    /\ stages' = Append(stages, "Config")
    /\ \E ok \in BOOLEAN :
         IF ok
         THEN /\ \E e \in [EnvVars -> EnvValues] : env' = e
              /\ err' = "nil"
              /\ pc' = "LoadConfig"
              /\ UNCHANGED exitStatus
         ELSE /\ err' = "dotenv"
              /\ Fatal
              /\ UNCHANGED env
    /\ UNCHANGED <<cfg, token, listing, listResp, authResp, now, posts,
                   emailBody, sent, open, opened, completed, net>>

\* cfg := LoadConfig() and the two validations
MainLoadConfig ==
    /\ pc = "LoadConfig"
    /\ cfg' = LoadConfig(env)
    /\ IF MissingReddit(cfg') \/ MissingSmtp(cfg')
       THEN /\ Fatal
            /\ UNCHANGED completed
       ELSE /\ pc' = "GetToken"
            /\ completed' = Append(completed, "Config")
            /\ UNCHANGED exitStatus
    /\ UNCHANGED <<env, token, err, listing, listResp, authResp, now, posts,
                   emailBody, sent, open, opened, stages, net>>

\* variant: only server errors are rejected
BadStatus_ServerErrorsOnly(resp) == resp.code >= 500

\* if resp.StatusCode != 200 in GetRedditAccessToken
BadStatus(resp) == resp.code # 200

\* token, err := GetRedditAccessToken(cfg).  http.NewRequest cannot fail on
\* the constant method and URL.  The deferred resp.Body.Close() runs on every
\* return after client.Do succeeded.
GetRedditAccessToken ==
    /\ pc = "GetToken"
    /\ stages' = Append(stages, "GetRedditAccessToken")
    /\ net' = Append(net, "POST")
    /\ pc' = "TokenReturned"
    /\ \E sent_ok \in BOOLEAN :
         IF ~sent_ok
         THEN /\ token' = ""
              /\ err' = "transport"
              /\ UNCHANGED <<authResp, open, opened>>
         ELSE /\ \E resp \in TokenResponses :
                   /\ authResp' = resp
                   /\ IF BadStatus(resp)
                      THEN /\ token' = ""
                           /\ err' = "failed to get token: " \o resp.status
                      ELSE \E decoded \in BOOLEAN :
                             IF ~decoded
                             THEN /\ token' = ""
                                  /\ err' = "decode"
                             ELSE /\ \E t \in SampleTokens : token' = t
                                  /\ err' = "nil"
              /\ opened' = opened \cup {"tokenBody"}
              /\ open' = (open \cup {"tokenBody"}) \ {"tokenBody"}
    /\ UNCHANGED <<env, cfg, listing, listResp, now, posts, emailBody, sent,
                   completed, exitStatus>>

\* variant: the error of GetRedditAccessToken is not checked
MainCheckToken_ErrIgnored ==
    /\ pc = "TokenReturned"
    /\ pc' = "Fetch"
    /\ completed' = IF err = "nil" THEN Append(completed, "GetRedditAccessToken")
                    ELSE completed
    /\ UNCHANGED <<env, cfg, token, err, listing, listResp, authResp, now,
                   posts, emailBody, sent, open, opened, stages, net,
                   exitStatus>>

\* if err != nil { log.Fatalf } after GetRedditAccessToken
MainCheckToken ==
    /\ pc = "TokenReturned"
    /\ IF err # "nil"
       THEN /\ Fatal
            /\ UNCHANGED completed
       ELSE /\ pc' = "Fetch"
            /\ completed' = Append(completed, "GetRedditAccessToken")
            /\ UNCHANGED exitStatus
    /\ UNCHANGED <<env, cfg, token, err, listing, listResp, authResp, now,
                   posts, emailBody, sent, open, opened, stages, net>>

\* variant: a status other than 200 is an error
ListingError_StatusChecked(code, decoded) ==
    IF code # 200 THEN "status" ELSE IF decoded THEN "nil" ELSE "decode"

\* err of fetchAndFilterTodayPosts once client.Do has answered: that of
\* json.NewDecoder(resp.Body).Decode(&posts); resp.StatusCode is never read
ListingError(code, decoded) == IF decoded THEN "nil" ELSE "decode"

\* posts, err := fetchAndFilterTodayPosts(cfg, token).  http.NewRequest cannot
\* fail on the constant method and URL.  The deferred resp.Body.Close() runs
\* on every return after client.Do succeeded.
fetchAndFilterTodayPosts ==
    /\ pc = "Fetch"
    /\ stages' = Append(stages, "fetchAndFilterTodayPosts")
    /\ net' = Append(net, "GET")
    /\ pc' = "FetchReturned"
    /\ \E sent_ok \in BOOLEAN :
         IF ~sent_ok
         THEN /\ posts' = << >>
              /\ err' = "transport"
              /\ UNCHANGED <<listing, listResp, now, open, opened>>
         ELSE /\ \E code \in ListingCodes, decoded \in BOOLEAN :
                   /\ listResp' = [code |-> code,
                                   body |-> IF decoded THEN "json" ELSE "malformed"]
                   /\ IF ListingError(code, decoded) # "nil"
                      THEN /\ posts' = << >>
                           /\ err' = ListingError(code, decoded)
                           /\ UNCHANGED <<listing, now>>
                      ELSE /\ \E children \in Listings, t \in SampleNow :
                                /\ listing' = children
                                /\ now' = t
                                /\ posts' = FilterLoop(children, 1, StartOfDay(t),
                                                       EndOfDay(t), cfg.Keywords,
                                                       << >>)
                           /\ err' = "nil"
              /\ opened' = opened \cup {"listingBody"}
              /\ open' = (open \cup {"listingBody"}) \ {"listingBody"}
    /\ UNCHANGED <<env, cfg, token, authResp, emailBody, sent, completed,
                   exitStatus>>

\* variant: the emptiness test never holds
NoMatches_Negative(ps) == Len(ps) < 0

\* if len(posts) == 0 in main
NoMatches(ps) == Len(ps) = 0

\* the error check after fetchAndFilterTodayPosts, then len(posts) == 0
MainCheckPosts ==
    /\ pc = "FetchReturned"
    /\ IF err # "nil"
       THEN /\ Fatal
            /\ UNCHANGED completed
       ELSE /\ completed' = Append(completed, "fetchAndFilterTodayPosts")
            /\ IF NoMatches(posts)
               THEN Return
               ELSE /\ pc' = "Compose"
                    /\ UNCHANGED exitStatus
    /\ UNCHANGED <<env, cfg, token, err, listing, listResp, authResp, now,
                   posts, emailBody, sent, open, opened, stages, net>>

\* emailBody := ComposeEmailBody(posts), then the call of SendEmail up to
\* tls.Dial
MainCompose ==
    /\ pc = "Compose"
    /\ emailBody' = ComposeEmailBody(posts)
    /\ stages' = Append(stages, "SendEmail")
    /\ pc' = "Dial"
    /\ UNCHANGED <<env, cfg, token, err, listing, listResp, authResp, now,
                   posts, sent, open, opened, completed, net, exitStatus>>

----------------------------------------------------------------------------
(* SendEmail: one action per blocking SMTP call.  SendEmail itself never   *)
(* closes conn or c; only net/smtp does, inside NewClient (on its error),  *)
(* Auth (on some of its errors) and Quit.                                  *)

\* return err from SendEmail
SendFails(step) ==
    /\ err' = "smtp " \o step
    /\ pc' = "SendReturned"

\* a call on the client c that neither opens nor closes the connection:
\* if err != nil { return err }
ClientCall(step, next) ==
    /\ pc = step
    /\ net' = Append(net, step)
    /\ \E ok \in BOOLEAN :
         IF ok THEN pc' = next /\ UNCHANGED err ELSE SendFails(step)
    /\ UNCHANGED <<env, cfg, token, listing, listResp, authResp, now, posts,
                   emailBody, sent, open, opened, stages, completed,
                   exitStatus>>

\* conn, err := tls.Dial("tcp", serverAddr, tlsconfig)
TlsDial ==
    /\ pc = "Dial"
    /\ net' = Append(net, "Dial")
    /\ \E ok \in BOOLEAN :
         IF ok
         THEN /\ pc' = "NewClient"
              /\ open' = open \cup {"smtpConn"}
              /\ opened' = opened \cup {"smtpConn"}
              /\ UNCHANGED err
         ELSE /\ SendFails("Dial")
              /\ UNCHANGED <<open, opened>>
    /\ UNCHANGED <<env, cfg, token, listing, listResp, authResp, now, posts,
                   emailBody, sent, stages, completed, exitStatus>>

\* c, err := smtp.NewClient(conn, cfg.SMTPHost); NewClient closes conn when
\* the greeting fails
SmtpNewClient ==
    /\ pc = "NewClient"
    /\ net' = Append(net, "NewClient")
    /\ \E ok \in BOOLEAN :
         IF ok
         THEN /\ pc' = "Auth"
              /\ UNCHANGED <<err, open>>
         ELSE /\ SendFails("NewClient")
              /\ open' = open \ {"smtpConn"}
    /\ UNCHANGED <<env, cfg, token, listing, listResp, authResp, now, posts,
                   emailBody, sent, opened, stages, completed, exitStatus>>

\* c.Auth(auth); Auth quits the session on some of its errors (a failed
\* challenge) and not on others (a failed EHLO)
SmtpAuth ==
    /\ pc = "Auth"
    /\ net' = Append(net, "Auth")
    /\ \E ok \in BOOLEAN :
         IF ok
         THEN /\ pc' = "Mail"
              /\ UNCHANGED <<err, open>>
         ELSE /\ SendFails("Auth")
              /\ \E quit \in BOOLEAN :
                   open' = IF quit THEN open \ {"smtpConn"} ELSE open
    /\ UNCHANGED <<env, cfg, token, listing, listResp, authResp, now, posts,
                   emailBody, sent, opened, stages, completed, exitStatus>>

\* c.Mail(cfg.EmailFrom)
SmtpMail == ClientCall("Mail", "Rcpt")

\* variant: the error of c.Rcpt is assigned and not returned
SmtpRcpt_ErrIgnored ==
    /\ pc = "Rcpt"
    /\ net' = Append(net, "Rcpt")
    /\ pc' = "Data"
    /\ \E ok \in BOOLEAN : err' = IF ok THEN err ELSE "smtp Rcpt"
    /\ UNCHANGED <<env, cfg, token, listing, listResp, authResp, now, posts,
                   emailBody, sent, open, opened, stages, completed,
                   exitStatus>>

\* c.Rcpt(cfg.EmailTo)
SmtpRcpt == ClientCall("Rcpt", "Data")

\* w, err := c.Data()
SmtpData == ClientCall("Data", "Write")

\* w.Write([]byte(message))
SmtpWrite ==
    /\ pc = "Write"
    /\ net' = Append(net, "Write")
    /\ \E ok \in BOOLEAN :
         IF ok
         THEN /\ pc' = "Close"
              /\ sent' = <<Message(cfg, "HyderabadBuySell Alert: Table/Chair Posts Today",
                                   emailBody)>>
              /\ UNCHANGED err
         ELSE /\ SendFails("Write")
              /\ UNCHANGED sent
    /\ UNCHANGED <<env, cfg, token, listing, listResp, authResp, now, posts,
                   emailBody, open, opened, stages, completed, exitStatus>>

\* w.Close()
SmtpClose == ClientCall("Close", "Quit")

\* return c.Quit(); Quit closes the connection once the server has answered
\* QUIT, and may still return the error of that close
SmtpQuit ==
    /\ pc = "Quit"
    /\ net' = Append(net, "Quit")
    /\ pc' = "SendReturned"
    /\ \E ok \in BOOLEAN :
         IF ok
         THEN /\ err' = "nil"
              /\ open' = open \ {"smtpConn"}
         ELSE /\ err' = "smtp Quit"
              /\ \E closed \in BOOLEAN :
                   open' = IF closed THEN open \ {"smtpConn"} ELSE open
    /\ UNCHANGED <<env, cfg, token, listing, listResp, authResp, now, posts,
                   emailBody, sent, opened, stages, completed, exitStatus>>

\* if err != nil { log.Fatalf } after SendEmail, then main returns
MainCheckSend ==
    /\ pc = "SendReturned"
    /\ IF err # "nil"
       THEN /\ Fatal
            /\ UNCHANGED completed
       ELSE /\ completed' = Append(completed, "SendEmail")
            /\ Return
    /\ UNCHANGED <<env, cfg, token, err, listing, listResp, authResp, now,
                   posts, emailBody, sent, open, opened, stages, net>>

Next ==
    \/ MainLoadEnv
    \/ MainLoadConfig
    \/ GetRedditAccessToken
    \/ MainCheckToken
    \/ fetchAndFilterTodayPosts
    \/ MainCheckPosts
    \/ MainCompose
    \/ TlsDial
    \/ SmtpNewClient
    \/ SmtpAuth
    \/ SmtpMail
    \/ SmtpRcpt
    \/ SmtpData
    \/ SmtpWrite
    \/ SmtpClose
    \/ SmtpQuit
    \/ MainCheckSend

Spec == Init /\ [][Next]_vars

----------------------------------------------------------------------------
(* Vocabulary of the properties. *)

StageOrder ==
    <<"Config", "GetRedditAccessToken", "fetchAndFilterTodayPosts", "SendEmail">>

SmtpOrder ==
    <<"Dial", "NewClient", "Auth", "Mail", "Rcpt", "Data", "Write", "Close", "Quit">>

IsPrefix(s, t) ==
    /\ Len(s) <= Len(t)
    /\ \A i \in 1..Len(s) : s[i] = t[i]

Range(s) == { s[i] : i \in 1..Len(s) }

IsSmtpOp(op) == op \in Range(SmtpOrder)

\* the SMTP operations attempted so far, in order
SmtpOps == SelectSeq(net, IsSmtpOp)

Last(s) == s[Len(s)]

\* two characters that are equal up to case
SameLetter(a, b) ==
    \/ a = b
    \/ \E i \in 1..Len(UpperChars) : {a, b} = {UpperChars[i], LowerChars[i]}

\* kw occurs in title, both case-folded
OccursFolded(title, kw) ==
    \E off \in 0..(Len(title) - Len(kw)) :
        \A j \in 1..Len(kw) : SameLetter(title[off + j], kw[j])

HasKeyword(child) ==
    \E k \in 1..Len(cfg.Keywords) : OccursFolded(child.Title, cfg.Keywords[k])

\* the creation time, cut to whole seconds, lies in 00:00:00..23:59:59 UTC of
\* the day of now (CreatedUTC counts half seconds)
InTodaysWindow(child) ==
    LET midnight == (now \div 86400) * 86400
    IN  /\ 2 * midnight <= child.CreatedUTC
        /\ child.CreatedUTC < 2 * (midnight + 86400)

\* result entry m is the post child
IsMatchOf(m, child) ==
    /\ m.Title = child.Title
    /\ 2 * m.Created <= child.CreatedUTC
    /\ child.CreatedUTC <= 2 * m.Created + 1
    /\ m.Permalink = "https://reddit.com" \o child.Permalink

InResult(child) == \E j \in 1..Len(posts) : IsMatchOf(posts[j], child)

\* the filter's contract on the decoded listing
FilterContract ==
    \A i \in 1..Len(listing) :
        InResult(listing[i]) <=> (InTodaysWindow(listing[i]) /\ HasKeyword(listing[i]))

FetchSucceeded == "fetchAndFilterTodayPosts" \in Range(completed)

EmailDelivered == "SendEmail" \in Range(completed)

----------------------------------------------------------------------------
(* Parts of C1. *)

C1_Order ==
    /\ IsPrefix(stages, StageOrder)
    /\ IsPrefix(completed, stages)
    /\ Len(stages) <= Len(completed) + 1
    /\ exitStatus = "exit1" => Len(completed) < Len(stages)

C1_Start ==
    stages' # stages =>
        /\ exitStatus = "running"
        /\ err = "nil"
        /\ completed = stages
        /\ stages' = Append(stages, StageOrder[Len(stages) + 1])

C1_End == exitStatus # "running" => UNCHANGED vars

(* C1: the stages run in the order Config, GetRedditAccessToken,           *)
(* fetchAndFilterTodayPosts, SendEmail, each at most once; a stage starts  *)
(* only when every earlier stage has completed without error, and once a   *)
(* stage has failed nothing more is invoked.                               *)
C1_StagesInOrder == [](C1_Order) /\ [][C1_Start /\ C1_End]_vars

C1_Witness ==
    /\ pc = "exit"
    /\ stages = StageOrder
    /\ completed = StageOrder

(* C2: with any of the ten required variables empty after loading, the run *)
(* ends fatally and no network call is ever made.                          *)
C2_MissingVarNoNetwork ==
    (pc # "LoadEnv" /\ \E v \in EnvVars : env[v] = "") =>
        /\ net = << >>
        /\ opened = {}
        /\ pc \in {"LoadConfig", "exit"}
        /\ pc = "exit" => exitStatus = "exit1"

C2_Witness ==
    /\ pc = "exit"
    /\ exitStatus = "exit1"
    /\ env["EMAIL_PASS"] = ""
    /\ \A v \in EnvVars \ {"EMAIL_PASS"} : env[v] = "v"

(* C3: a token response with a status other than 200 makes                 *)
(* GetRedditAccessToken return no token and an error carrying the status   *)
(* text, and the run ends fatally with no listing fetch and no SMTP step.  *)
C3_Non200Auth ==
    (authResp.code # 0 /\ authResp.code # 200) =>
        /\ token = ""
        /\ err = "failed to get token: " \o authResp.status
        /\ net = <<"POST">>
        /\ pc \in {"TokenReturned", "exit"}
        /\ pc = "exit" => exitStatus = "exit1"

C3_Witness ==
    /\ pc = "exit"
    /\ authResp.code = 401
    /\ err = "failed to get token: 401 Unauthorized"

(* C4: when the fetch returns no matches, SendEmail is never invoked, no   *)
(* SMTP operation is attempted and the run exits 0; SendEmail is invoked   *)
(* only with a non-empty result.                                           *)
C4_NoMatchesNoEmail ==
    /\ "SendEmail" \in Range(stages) => Len(posts) > 0
    /\ SmtpOps # << >> => Len(posts) > 0
    /\ (FetchSucceeded /\ posts = << >>) =>
          /\ pc = "exit"
          /\ exitStatus = "exit0"
          /\ SmtpOps = << >>
          /\ "smtpConn" \notin opened

C4_Witness ==
    /\ pc = "exit"
    /\ exitStatus = "exit0"
    /\ listing # << >>
    /\ posts = << >>

(* C5: the run exits 0 only after the email was delivered or after a fetch *)
(* without error and without matches; every error ends it with a non-zero  *)
(* status; no outbound call is made twice.                                 *)
C5_ExitStatus ==
    /\ exitStatus = "exit0" =>
          \/ EmailDelivered /\ SmtpOps = SmtpOrder /\ err = "nil"
          \/ FetchSucceeded /\ posts = << >> /\ err = "nil"
    /\ (pc = "exit" /\ err # "nil") => exitStatus = "exit1"
    /\ (pc = "exit" /\ (MissingReddit(cfg) \/ MissingSmtp(cfg))) => exitStatus = "exit1"
    /\ \A i, j \in 1..Len(net) : net[i] = net[j] => i = j

C5_Witness ==
    /\ pc = "exit"
    /\ exitStatus = "exit1"
    /\ err = "smtp Rcpt"

(* C6: when fetchAndFilterTodayPosts returns a result, a post of the       *)
(* listing is in it exactly when its creation time in whole seconds lies   *)
(* in today's UTC window 00:00:00..23:59:59 and its case-folded title      *)
(* contains a case-folded keyword.                                         *)
C6_FilterIff == (pc = "FetchReturned" /\ err = "nil") => FilterContract

C6_Witness ==
    /\ pc = "FetchReturned"
    /\ now = SampleDay * 86400 + 86399
    /\ Len(listing) = 2
    /\ listing[1].Title = <<"N","e","w"," ","T","A","B","L","E">>
    /\ listing[1].CreatedUTC = (SampleDay + 1) * 86400 * 2 - 1
    /\ listing[2].Title = <<"C","h","a","i","r","s">>
    /\ listing[2].CreatedUTC = (SampleDay + 1) * 86400 * 2
    /\ Len(posts) = 1
    /\ posts[1].Title = listing[1].Title

(* C7: the result fetchAndFilterTodayPosts returns is a subsequence of the *)
(* listing: some strictly increasing choice of listing positions yields    *)
(* exactly the result, so no post appears twice and the listing's order is *)
(* kept.                                                                   *)
C7_Subsequence ==
    pc = "FetchReturned" =>
        \E f \in [1..Len(posts) -> 1..Len(listing)] :
            /\ \A j \in 1..Len(posts) : IsMatchOf(posts[j], listing[f[j]])
            /\ \A j, k \in 1..Len(posts) : j < k => f[j] < f[k]

C7_Witness ==
    /\ pc = "FetchReturned"
    /\ Len(listing) = 2
    /\ listing[1].Title = <<"t","a","b","l","e"," ","c","h","a","i","r">>
    /\ listing[2].Title = <<"C","h","a","i","r","s">>
    /\ Len(posts) = 2
    /\ posts[1].Title = listing[1].Title
    /\ posts[2].Title = listing[2].Title

(* C8: the SMTP operations happen in the order Dial, NewClient, Auth,      *)
(* Mail, Rcpt, Data, Write, Close, Quit, each at most once; an operation   *)
(* is attempted only when all earlier ones succeeded; when one fails,      *)
(* SendEmail returns its error, nothing later is attempted and the run     *)
(* exits non-zero.                                                         *)
C8_SmtpOrder ==
    LET ops == SmtpOps
    IN  /\ IsPrefix(ops, SmtpOrder)
        /\ pc \in Range(SmtpOrder) =>
              /\ err = "nil"
              /\ Len(ops) < Len(SmtpOrder)
              /\ SmtpOrder[Len(ops) + 1] = pc
        /\ (pc \in {"SendReturned", "exit"} /\ ops # << >>) =>
              \/ err = "nil" /\ ops = SmtpOrder
              \/ err = "smtp " \o Last(ops)
        /\ (pc = "exit" /\ ops # << >> /\ err # "nil") => exitStatus = "exit1"
        /\ (pc = "exit" /\ ops # << >> /\ ops # SmtpOrder) => exitStatus = "exit1"

C8_Witness ==
    /\ pc = "exit"
    /\ exitStatus = "exit1"
    /\ err = "smtp Data"
    /\ SmtpOps = SubSeq(SmtpOrder, 1, 6)

(* C9: whenever GetRedditAccessToken, fetchAndFilterTodayPosts or          *)
(* SendEmail has returned, every connection and response body it opened    *)
(* is closed.                                                              *)
C9_ClosedOnReturn ==
    pc \in {"TokenReturned", "Fetch", "FetchReturned", "Compose", "SendReturned", "exit"}
        => open = {}

(* C10: the listing response's status is never inspected: a non-200        *)
(* response whose body decodes is filtered like any listing and returns a  *)
(* nil error; with no entries in it the result is empty and the run ends   *)
(* with status 0 without any SMTP operation.                               *)
C10_StatusIgnored ==
    (listResp.code # 0 /\ listResp.code # 200 /\ listResp.body = "json") =>
        /\ pc = "FetchReturned" => (err = "nil" /\ FilterContract)
        /\ pc # "FetchReturned" => FetchSucceeded
        /\ listing = << >> =>
              /\ posts = << >>
              /\ SmtpOps = << >>
              /\ "SendEmail" \notin Range(stages)
              /\ pc = "exit" => exitStatus = "exit0"

C10_Witness ==
    /\ pc = "exit"
    /\ exitStatus = "exit0"
    /\ listResp = [code |-> 401, body |-> "json"]
    /\ listing = << >>
    /\ net = <<"POST", "GET">>

====
